---- MODULE Spec2Model ----
(***************************************************************************)
(* torch/utils/data/datapipes/iter/sampler.py                              *)
(*                                                                         *)
(* FilterIterDataPipe and SamplerIterDataPipe, modelled as one client      *)
(* that constructs an adapter, opens iterators on it, pulls elements from  *)
(* them (possibly interleaved), abandons them, and asks for the length.    *)
(***************************************************************************)
EXTENDS Integers, Sequences, FiniteSets, TLC

VARIABLES adapter, its, warnings, result, strategy_iters

vars == <<adapter, its, warnings, result, strategy_iters>>

\* ------------------------------------------------------------------ bounds
MaxLen == 3
MaxIters == 2

\* ------------------------------------------------------------- input sets
Elems == {1, 2}

Sources == UNION {[1..n -> Elems] : n \in 0..MaxLen}

\* What an upstream pipeline is to this file: the sequence a fresh iteration
\* of it produces, and the kind of __len__ its class has.
\*   "sized"   : __len__ returns the number of elements
\*   "unsized" : the class defines no __len__
\*   "filter"  : a FilterIterDataPipe; __len__ is defined and raises
PipeKinds == {"sized", "unsized", "filter"}

Pipelines == [kind : PipeKinds, data : Sources]

\* The filter adapter never looks at its upstream's __len__; two kinds of
\* upstream are enough to construct it over.
FilterUpstreamKinds == {"sized", "unsized"}

\* What a call of filter_fn can do, as far as `if (...)` can tell: return a
\* truthy value, return a falsy value, or raise.
RetVals == {"truthy", "falsy", "raise"}

FnNames == {"named", "<lambda>", "absent"}

FilterFns == [name : FnNames, ret : [Elems -> RetVals]]

\* (*args, **kwargs) given at construction.
Extras == {[args |-> <<>>, kwargs |-> <<>>], [args |-> <<1>>, kwargs |-> <<2>>]}

NoAdapter == [cls |-> "None"]

NoResult == [call |-> "none", arg |-> "", exc |-> "None", val |-> 0]

Returned(c, a, v) == [call |-> c, arg |-> a, exc |-> "None", val |-> v]

Raised(c, a, e) == [call |-> c, arg |-> a, exc |-> e, val |-> 0]

\* An iterator object handed to the consumer.
\*   status : "unused" (not created), "created" (not started), "suspended"
\*            (delivered an element), "failed" (the latest next() raised),
\*            "finished" (the latest next() raised StopIteration),
\*            "closed" (abandoned by the consumer)
\*   pos    : how many upstream elements this traversal has pulled
\*   out    : the elements the consumer received, in order
\*   calls  : the filter_fn invocations made, in order
\*   drawn  : what the strategy's iterator produced, in order
\*   raised : an exception has been propagated to the consumer
NoIter ==
    [status |-> "unused", pos |-> 0, out |-> <<>>, calls |-> <<>>,
     drawn |-> <<>>, raised |-> FALSE]

NewIter == [NoIter EXCEPT !.status = "created"]

Used == {t \in 1..MaxIters : its[t].status # "unused"}

\* ------------------------------------------------------ FilterIterDataPipe

\* filter_fn.__name__ == '<lambda>'
IsLambdaAlways(fn) == TRUE

IsLambda(fn) == fn.name = "<lambda>"

\* if (...): truthiness of the value filter_fn returned
TruthyNegated(r) == r = "falsy"

Truthy(r) == r = "truthy"

\* for data in self.datapipe: iter(self.datapipe) opens a new upstream
\* iterator at the start, whatever the other traversals have consumed.
UpstreamIterShared(others) ==
    IF others = {} THEN 0
    ELSE CHOOSE p \in {its[t].pos : t \in others} :
             \A q \in {its[t].pos : t \in others} : q <= p

UpstreamIter(others) == 0

\* yield data
YieldAhead(g, data) ==
    [g EXCEPT !.status = "suspended", !.out = Append(@, data), !.pos = @ + 1]

Yield(g, data) == [g EXCEPT !.status = "suspended", !.out = Append(@, data)]

\* filter_fn raised: nothing catches it, the generator dies with it.
PropagateSwallow(g) == [g EXCEPT !.status = "finished"]

Propagate(g) == [g EXCEPT !.status = "failed", !.raised = TRUE]

\* The generator body, run until it yields, raises or returns.
RECURSIVE Resume(_, _)
Resume(self, g) ==
    IF g.pos >= Len(self.datapipe.data)
    THEN [g EXCEPT !.status = "finished"]
    ELSE LET data == self.datapipe.data[g.pos + 1]
             r == self.filter_fn.ret[data]
             g1 == [g EXCEPT !.pos = @ + 1,
                             !.calls = Append(@, <<data, self.args, self.kwargs>>)]
         IN  IF r = "raise" THEN Propagate(g1)
             ELSE IF Truthy(r) THEN Yield(g1, data)
             ELSE Resume(self, g1)

\* FilterIterDataPipe.__len__
FilterLenFromUpstream(self) ==
    IF self.datapipe.kind = "sized"
    THEN Returned("len", "", Len(self.datapipe.data))
    ELSE Raised("len", "", "NotImplementedError")

FilterLenResult(self) == Raised("len", "", "NotImplementedError")

Init ==
    /\ adapter = NoAdapter
    /\ its = [t \in 1..MaxIters |-> NoIter]
    /\ warnings = <<>>
    /\ result = NoResult
    /\ strategy_iters = 0

\* FilterIterDataPipe.__init__
FilterInit ==
    /\ adapter.cls = "None"
    /\ result.call = "none"
    /\ \E dp \in Pipelines, fn \in FilterFns, ex \in Extras :
         dp.kind \in FilterUpstreamKinds /\
         IF fn.name = "absent"
         THEN /\ result' = Raised("init", fn.name, "AttributeError")
              /\ UNCHANGED <<adapter, warnings>>
         ELSE /\ warnings' = IF IsLambda(fn) THEN Append(warnings, "UserWarning")
                             ELSE warnings
              /\ adapter' = [cls |-> "Filter", datapipe |-> dp, filter_fn |-> fn,
                             args |-> ex.args, kwargs |-> ex.kwargs]
              /\ result' = Returned("init", fn.name, 0)
    /\ UNCHANGED <<its, strategy_iters>>

\* FilterIterDataPipe.__iter__: calling a generator function runs none of it.
FilterIter ==
    /\ adapter.cls = "Filter"
    /\ \E t \in 1..MaxIters :
         /\ its[t].status = "unused"
         /\ \A u \in 1..(t - 1) : its[u].status # "unused"
         /\ its' = [its EXCEPT ![t] = NewIter]
    /\ UNCHANGED <<adapter, warnings, result, strategy_iters>>

\* next() on a generator of FilterIterDataPipe.__iter__. A generator that
\* raised or returned is exhausted: next() raises StopIteration; so does
\* next() on a closed one.
FilterNext(t) ==
    /\ adapter.cls = "Filter"
    /\ its[t].status # "unused"
    /\ LET g == its[t] IN
         its' = [its EXCEPT ![t] =
                   IF g.status = "created"
                   THEN Resume(adapter, [g EXCEPT !.pos = UpstreamIter(Used \ {t})])
                   ELSE IF g.status = "suspended" THEN Resume(adapter, g)
                   ELSE IF g.status = "failed" THEN [g EXCEPT !.status = "finished"]
                   ELSE g]
    /\ UNCHANGED <<adapter, warnings, result, strategy_iters>>

\* The consumer stops early: the generator is closed at its yield.
FilterClose(t) ==
    /\ adapter.cls = "Filter"
    /\ its[t].status \in {"created", "suspended"}
    /\ its' = [its EXCEPT ![t].status = "closed"]
    /\ UNCHANGED <<adapter, warnings, result, strategy_iters>>

\* len(filter_adapter)
FilterLen ==
    /\ adapter.cls = "Filter"
    /\ result' = FilterLenResult(adapter)
    /\ UNCHANGED <<adapter, its, warnings, strategy_iters>>

\* ----------------------------------------------------- SamplerIterDataPipe

SamplerCtors == {"SequentialSampler", "CustomSampler"}

\* **kwargs of a strategy constructor. For the custom strategy they say what
\* its __len__ does (has = FALSE: the class defines none) and on which next()
\* its iterator raises (0: never).
LenReports == {-1, 0, 5}

FailPoints == {0, 1, 2}

NoKwargs == [has |-> FALSE, val |-> 0, failAt |-> 0]

CustomKwargs ==
    {NoKwargs} \cup [has : {TRUE}, val : LenReports, failAt : FailPoints]
               \cup [has : {FALSE}, val : {0}, failAt : FailPoints]

RECURSIVE Reverse(_)
Reverse(s) == IF s = <<>> THEN <<>> ELSE Append(Reverse(Tail(s)), Head(s))

\* len(datapipe) of an upstream pipeline.
PipeLen(dp) ==
    IF dp.kind = "sized" THEN Returned("len", "", Len(dp.data))
    ELSE IF dp.kind = "filter" THEN Raised("len", "", "NotImplementedError")
    ELSE Raised("len", "", "TypeError")

\* The strategies: SequentialSampler passes its data source through in
\* order and reports its length; the custom one yields it reversed.
StrategyItems(s) ==
    IF s.ctor = "SequentialSampler" THEN s.data_source.data
    ELSE Reverse(s.data_source.data)

StrategyHasLen(s) == s.ctor = "SequentialSampler" \/ s.kwargs.has

\* sampler.__len__()
StrategyLen(s) ==
    IF s.ctor = "SequentialSampler" THEN PipeLen(s.data_source)
    ELSE Returned("len", "", s.kwargs.val)

\* The (n+1)-th next() on an iterator of the strategy.
StrategyNext(s, n) ==
    IF s.kwargs.failAt = n + 1 /\ n <= Len(StrategyItems(s))
    THEN [kind |-> "raise", val |-> 0]
    ELSE IF s.kwargs.failAt # 0 /\ s.kwargs.failAt <= n
    THEN [kind |-> "stop", val |-> 0]
    ELSE IF n < Len(StrategyItems(s))
    THEN [kind |-> "item", val |-> StrategyItems(s)[n + 1]]
    ELSE [kind |-> "stop", val |-> 0]

\* isinstance(x, Sized): the class of x defines __len__. FilterIterDataPipe
\* defines one (that raises), so a filter adapter is Sized.
IsSized(dp) == dp.kind \in {"sized", "filter"}

\* The builtin len(): what __len__ raised propagates, and a negative return
\* value is a ValueError before the caller sees it.
BuiltinLen(rep) ==
    IF rep.exc # "None" THEN rep
    ELSE IF rep.val < 0 THEN Raised("len", "", "ValueError")
    ELSE rep

\* SamplerIterDataPipe.__len__
SamplerLenPositive(self) ==
    IF StrategyHasLen(self.sampler)
    THEN LET l == BuiltinLen(StrategyLen(self.sampler))
         IN  IF l.exc # "None" THEN l
             ELSE IF l.val > 0 THEN l
             ELSE Raised("len", "", "NotImplementedError")
    ELSE Raised("len", "", "NotImplementedError")

SamplerLenResult(self) ==
    IF StrategyHasLen(self.sampler)
    THEN LET l == BuiltinLen(StrategyLen(self.sampler))
         IN  IF l.exc # "None" THEN l
             ELSE IF l.val >= 0 THEN l
             ELSE Raised("len", "", "NotImplementedError")
    ELSE Raised("len", "", "NotImplementedError")

\* return iter(self.sampler): the consumer holds the strategy's own
\* iterator, so what it produces is what the consumer gets.
PassthroughSwallow(r) ==
    IF r.kind = "raise" THEN [kind |-> "stop", val |-> 0] ELSE r

Passthrough(r) == r

\* SamplerIterDataPipe.__init__
SamplerInit ==
    /\ adapter.cls = "None"
    /\ result.call = "none"
    /\ \E dp \in Pipelines, ctor \in SamplerCtors, kw \in CustomKwargs :
         /\ ctor = "SequentialSampler" => kw = NoKwargs
         /\ IF ~IsSized(dp)
            THEN /\ result' = Raised("init", dp.kind, "AssertionError")
                 /\ UNCHANGED adapter
            ELSE /\ adapter' = [cls |-> "Sampler", datapipe |-> dp,
                                sampler |-> [ctor |-> ctor, data_source |-> dp,
                                             kwargs |-> kw]]
                 /\ result' = Returned("init", dp.kind, 0)
    /\ UNCHANGED <<its, warnings, strategy_iters>>

\* SamplerIterDataPipe.__iter__: one iter(self.sampler) per call.
SamplerIter ==
    /\ adapter.cls = "Sampler"
    /\ \E t \in 1..MaxIters :
         /\ its[t].status = "unused"
         /\ \A u \in 1..(t - 1) : its[u].status # "unused"
         /\ its' = [its EXCEPT ![t] = NewIter]
    /\ strategy_iters' = strategy_iters + 1
    /\ UNCHANGED <<adapter, warnings, result>>

\* next() on the iterator SamplerIterDataPipe.__iter__ returned.
SamplerNext(t) ==
    /\ adapter.cls = "Sampler"
    /\ its[t].status \in {"created", "suspended", "failed"}
    /\ LET g == its[t]
           r == StrategyNext(adapter.sampler, Len(g.drawn))
           c == Passthrough(r)
           g1 == [g EXCEPT !.pos = @ + 1, !.drawn = Append(@, r)]
       IN  its' = [its EXCEPT ![t] =
                     IF c.kind = "item"
                     THEN [g1 EXCEPT !.status = "suspended", !.out = Append(@, c.val)]
                     ELSE IF c.kind = "raise"
                     THEN [g1 EXCEPT !.status = "failed", !.raised = TRUE]
                     ELSE [g1 EXCEPT !.status = "finished"]]
    /\ UNCHANGED <<adapter, warnings, result, strategy_iters>>

\* len(sampler_adapter)
SamplerLen ==
    /\ adapter.cls = "Sampler"
    /\ result' = SamplerLenResult(adapter)
    /\ UNCHANGED <<adapter, its, warnings, strategy_iters>>

NextFilter ==
    \/ FilterInit
    \/ FilterIter
    \/ \E t \in 1..MaxIters : FilterNext(t)
    \/ \E t \in 1..MaxIters : FilterClose(t)
    \/ FilterLen

NextSampler ==
    \/ SamplerInit
    \/ SamplerIter
    \/ \E t \in 1..MaxIters : SamplerNext(t)
    \/ SamplerLen

Next == NextFilter \/ NextSampler

FilterSpec == Init /\ [][NextFilter]_vars

SamplerSpec == Init /\ [][NextSampler]_vars

Spec == Init /\ [][Next]_vars

\* =================================================================== claims

\* The claims' own reading of the inputs, independent of the operators above.
S == adapter.datapipe.data

Passes(x) == adapter.filter_fn.ret[x] = "truthy"

Fails(x) == adapter.filter_fn.ret[x] = "raise"

Prefix(n) == SubSeq(S, 1, n)

PassingOf(seq) == SelectSeq(seq, Passes)

NeverFails == \A i \in 1..Len(S) : ~Fails(S[i])

\* Index of the first element of S on which the predicate raises, 0 if none.
FirstRaise ==
    IF NeverFails THEN 0
    ELSE CHOOSE k \in 1..Len(S) : Fails(S[k]) /\ \A i \in 1..(k - 1) : ~Fails(S[i])

IsFilter == adapter.cls = "Filter"

IsSampler == adapter.cls = "Sampler"

\* C1: when the predicate fails on no element of S, a traversal of the filter
\* adapter that ran to its end delivered exactly the elements of S that
\* satisfy the predicate, in upstream order, and at most Len(S) of them.
C1_FilteredSubsequence ==
    (IsFilter /\ NeverFails) =>
        \A t \in Used :
            its[t].status = "finished" =>
                /\ its[t].out = PassingOf(S)
                /\ Len(its[t].out) <= Len(S)

C1_Witness ==
    /\ IsFilter /\ NeverFails
    /\ \E t \in Used :
         /\ its[t].status = "finished"
         /\ Len(its[t].out) = 2
         /\ Len(S) = 3

\* C2: when the predicate raises on the k-th element of S, a traversal that
\* reached it delivered exactly the passing elements among the first k-1,
\* then raised, never went past element k, and delivers nothing afterwards;
\* a traversal raises in no other case.
C2_FailurePropagates ==
    IsFilter =>
        \A t \in Used :
            /\ (FirstRaise > 0 /\ its[t].pos >= FirstRaise) =>
                   /\ its[t].raised
                   /\ its[t].status \in {"failed", "finished"}
                   /\ its[t].pos = FirstRaise
                   /\ its[t].out = PassingOf(Prefix(FirstRaise - 1))
            /\ its[t].raised => (FirstRaise > 0 /\ its[t].pos = FirstRaise)
            /\ its[t].status = "failed" => its[t].raised

C2_Witness ==
    /\ IsFilter
    /\ \E t \in Used :
         /\ its[t].raised
         /\ its[t].status = "finished"
         /\ FirstRaise = 3
         /\ Len(its[t].out) = 2

\* C6: len() of a filter adapter raises NotImplementedError, whatever the
\* upstream and the predicate, and whatever state its traversals are in.
C6_FilterLenNotImplemented ==
    (IsFilter /\ result.call = "len") => result.exc = "NotImplementedError"

C6_Witness ==
    /\ IsFilter /\ result.call = "len"
    /\ adapter.datapipe.kind = "sized"
    /\ \E t \in Used : its[t].status = "suspended"
    /\ \E t \in Used : its[t].status = "finished"

\* C7: constructing a filter adapter with a lambda emits one warning and
\* succeeds, and the adapter filters as with a named predicate; with a named
\* predicate no warning is emitted.
C7_LambdaWarningNonFatal ==
    /\ (result.call = "init" /\ result.arg \in {"<lambda>", "named"}) =>
           (result.exc = "None" /\ IsFilter)
    /\ IsFilter =>
           /\ adapter.filter_fn.name = "<lambda>" => warnings = <<"UserWarning">>
           /\ adapter.filter_fn.name = "named" => warnings = <<>>
           /\ \A t \in Used :
                  (its[t].status = "finished" /\ ~its[t].raised) =>
                      its[t].out = PassingOf(S)

C7_Witness ==
    /\ IsFilter
    /\ adapter.filter_fn.name = "<lambda>"
    /\ warnings = <<"UserWarning">>
    /\ \E t \in Used :
         its[t].status = "finished" /\ ~its[t].raised /\ Len(its[t].out) = 2

\* C8: no cursor survives between iteration calls. Every traversal of a
\* filter adapter starts at the first upstream element and delivers the
\* passing elements of the prefix it has pulled, whatever state the other
\* traversals are in, and one that ends without failure has pulled all of S;
\* every iteration call on a sampler adapter makes one iter() call on the
\* strategy, and each iterator draws from the strategy's beginning.
C8_FreshTraversal ==
    /\ IsFilter =>
           \A t \in Used :
               /\ \A i \in 1..Len(its[t].calls) :
                      i <= Len(S) /\ its[t].calls[i][1] = S[i]
               /\ its[t].out = PassingOf(Prefix(Len(its[t].calls)))
               /\ (its[t].status = "finished" /\ ~its[t].raised) =>
                      Len(its[t].calls) = Len(S)
    /\ IsSampler =>
           /\ strategy_iters = Cardinality(Used)
           /\ \A t \in Used :
                  \A i \in 1..Len(its[t].drawn) :
                      its[t].drawn[i] = StrategyNext(adapter.sampler, i - 1)

C8_Witness ==
    /\ IsFilter
    /\ its[1].status \in {"suspended", "closed"}
    /\ its[1].pos = 2
    /\ its[2].status = "finished"
    /\ ~its[2].raised
    /\ Len(its[2].out) = 2

\* C9: in a traversal of a filter adapter the predicate has been called
\* exactly once on each upstream element pulled, in upstream order, with the
\* construction-time extra arguments; a traversal that has just delivered an
\* element has pulled nothing beyond it; and once the consumer has stopped,
\* nothing more is pulled and the predicate is not called again.
C9_Inv ==
    IsFilter =>
        \A t \in Used :
            /\ its[t].pos <= Len(S)
            /\ its[t].calls =
                   [i \in 1..its[t].pos |-> <<S[i], adapter.args, adapter.kwargs>>]
            /\ its[t].status = "suspended" =>
                   /\ its[t].pos >= 1
                   /\ Passes(S[its[t].pos])
                   /\ its[t].out = PassingOf(Prefix(its[t].pos))

C9_Step ==
    \A t \in 1..MaxIters :
        its[t].status = "closed" =>
            /\ its'[t].status = "closed"
            /\ its'[t].pos = its[t].pos
            /\ its'[t].calls = its[t].calls
            /\ its'[t].out = its[t].out

\* C9 as one property: the state part holds in every reachable state and
\* the step part across every step.
C9_LazyOncePerElement == []C9_Inv /\ [][C9_Step]_vars

C9_Witness ==
    /\ IsFilter
    /\ adapter.args = <<1>>
    /\ \E t \in Used :
         /\ its[t].status = "closed"
         /\ its[t].pos = 2
         /\ Len(its[t].out) = 1
         /\ Len(S) = 3
    /\ \E t \in Used : its[t].status = "suspended" /\ its[t].pos = 3

\* What the claims call an upstream that supports a count operation: one
\* whose len() returns a number.
SupportsCount(dp) == dp.kind = "sized"

IsPrefix(a, b) == Len(a) <= Len(b) /\ a = SubSeq(b, 1, Len(a))

\* C3: a sampler adapter built with the default strategy over an upstream
\* that supports a count delivers the upstream's elements in upstream order
\* (all of them once a traversal has ended, without failure), and its len()
\* is the upstream's number of elements.
C3_DefaultSamplerIsIdentity ==
    (IsSampler /\ adapter.sampler.ctor = "SequentialSampler"
              /\ SupportsCount(adapter.datapipe)) =>
        /\ \A t \in Used :
               /\ IsPrefix(its[t].out, S)
               /\ ~its[t].raised
               /\ its[t].status = "finished" => its[t].out = S
        /\ result.call = "len" => (result.exc = "None" /\ result.val = Len(S))

C3_Witness ==
    /\ IsSampler /\ adapter.sampler.ctor = "SequentialSampler"
    /\ SupportsCount(adapter.datapipe)
    /\ S = <<2, 1, 1>>
    /\ \E t \in Used : its[t].status = "finished" /\ its[t].out = <<2, 1, 1>>
    /\ result.call = "len" /\ result.val = 3

\* C4: constructing a sampler adapter over an upstream that lacks a count
\* operation fails with the precondition's AssertionError, whatever the
\* strategy constructor and its arguments, and leaves no adapter.
C4_UncountedUpstreamRejected ==
    /\ IsSampler => SupportsCount(adapter.datapipe)
    /\ (result.call = "init" /\ result.arg \in {"unsized", "filter"}) =>
           (result.exc = "AssertionError" /\ ~IsSampler)

\* C5: len() of a sampler adapter is the strategy's reported count when the
\* strategy has a count and reports a non-negative one, and raises
\* NotImplementedError otherwise; the upstream's count plays no part.
C5_LenDelegatesToStrategy ==
    (IsSampler /\ result.call = "len") =>
        LET rep == StrategyLen(adapter.sampler)
        IN  IF StrategyHasLen(adapter.sampler) /\ rep.exc = "None" /\ rep.val >= 0
            THEN result.exc = "None" /\ result.val = rep.val
            ELSE result.exc = "NotImplementedError"

\* C10: what a traversal of a sampler adapter delivers is what the
\* strategy's iterator produced: the same elements in the same order, and a
\* failure of the strategy reaches the consumer right after the elements
\* produced before it.
C10_SamplerPassThrough ==
    IsSampler =>
        \A t \in Used :
            /\ Len(its[t].out) <= Len(its[t].drawn)
            /\ \A i \in 1..Len(its[t].out) :
                   its[t].drawn[i] = [kind |-> "item", val |-> its[t].out[i]]
            /\ \A i \in 1..Len(its[t].drawn) :
                   /\ its[t].drawn[i].kind = "item" => i <= Len(its[t].out)
                   /\ its[t].drawn[i].kind = "raise" =>
                          (its[t].raised /\ i = Len(its[t].out) + 1)
            /\ its[t].raised => \E i \in 1..Len(its[t].drawn) :
                                    its[t].drawn[i].kind = "raise"

C10_Witness ==
    /\ IsSampler /\ adapter.sampler.ctor = "CustomSampler"
    /\ S = <<1, 2, 2>>
    /\ \E t \in Used : its[t].raised /\ its[t].out = <<2>>
    /\ \E t \in Used : its[t].status = "suspended" /\ its[t].out = <<2>>

====
